---- MODULE Spec2Model ----
(***************************************************************************)
(* The two CRUD wrappers of the repository over the external vector        *)
(* engine, as one state machine.                                           *)
(*                                                                         *)
(*   variant "A": src/vector_db.py exposed by src/api.py                   *)
(*                (caller-supplied ids, collections named per call)        *)
(*   variant "B": src/src/db.py exposed by src/src/api.py                  *)
(*                (uuid ids, one collection bound to the VectorDB object)  *)
(*                                                                         *)
(* A process runs one of the two programs; `variant` is chosen in Init and *)
(* never changes.  The engine's state is the set of collection names and,  *)
(* per collection, a bag of (id, text) entries.  The bag is what lets the  *)
(* model say "two documents under one id"; whether that happens is decided *)
(* by the operations below, not by the representation.                     *)
(*                                                                         *)
(* Engine calls are atomic.  Nearest-neighbour search is exact; the order  *)
(* among equally distant entries is the engine's choice and is therefore   *)
(* nondeterministic here.  top_n ranges over the positive integers.        *)
(***************************************************************************)
EXTENDS Integers, Sequences, FiniteSets, TLC

\* ---------------------------------------------------------------- bounds
NumColls == 1
NumIds == 2
NumTexts == 2
MaxTopN == 3

CollNames == 1..NumColls
Ids == 1..NumIds
Texts == 1..NumTexts
TopNs == 1..MaxTopN

\* collection_name="my_collection", the default of VectorDB.__init__ in variant B
DefaultColl == 1

VARIABLES
    variant,   \* "A" or "B": which of the two programs this process runs
    names,     \* the engine's set of existing collection names
    store,     \* store[c][<<id, text>>]: number of entries (id, text) in collection c
    handle,    \* variant B: whether self.collection is bound
    issued,    \* variant B: the uuid tokens uuid4() has produced so far
    last,      \* the call being answered (its arguments, outcome and the state
               \* before it), or Idle between two calls
    updating   \* variant A: an update_document call that runs step by step
               \* beside the other requests, or NotUpdating

vars == <<variant, names, store, handle, issued, last, updating>>

\* ---------------------------------------------------------------- engine
Keys == Ids \X Texts
EmptyDocs == [k \in Keys |-> 0]

RECURSIVE SumOver(_, _)
SumOver(f, S) ==
    IF S = {} THEN 0
    ELSE LET k == CHOOSE x \in S : TRUE IN f[k] + SumOver(f, S \ {k})

\* collection.count(): the number of entries in the collection
Count(docs) == SumOver(docs, Keys)

\* the number of entries stored under one id
Copies(docs, id) == SumOver(docs, {k \in Keys : k[1] = id})

IdsOf(docs) == {id \in Ids : Copies(docs, id) > 0}

\* the entries of a collection, one element per stored copy
Entries(docs) == UNION {{<<k[1], k[2], c>> : c \in 1..docs[k]} : k \in Keys}

Min(a, b) == IF a <= b THEN a ELSE b
Abs(x) == IF x < 0 THEN -x ELSE x
Range(s) == {s[i] : i \in DOMAIN s}

\* The embedding model: a deterministic map from text to a point.  It is not
\* injective: texts 2 and 3 share a vector.
Embed(text) == text \div 2

\* Cosine distance between the embeddings, in 0..2; 0 for equal embeddings.
Distance(a, b) == Min(2, Abs(Embed(a) - Embed(b)))

\* collection.get(ids=[id])["ids"]: one element per stored entry with that id
EngineGet(docs, id) == {e \in Entries(docs) : e[1] = id}

\* How the engine answers an add of an id that is already stored: it raises,
\* or it ignores the add.
DupModes == {"raise", "ignore"}

\* A mutation of EngineAdd: the entry is appended whatever is stored.
EngineAddAppend(docs, id, text, dup) ==
    [res |-> "ok", docs |-> [docs EXCEPT ![<<id, text>>] = @ + 1]]

\* collection.add(ids=[id], ...)
EngineAdd(docs, id, text, dup) ==
    IF EngineGet(docs, id) # {}
    THEN IF dup = "raise"
         THEN [res |-> "IDAlreadyExists", docs |-> docs]
         ELSE [res |-> "ok", docs |-> docs]
    ELSE [res |-> "ok", docs |-> [docs EXCEPT ![<<id, text>>] = @ + 1]]

\* collection.delete(ids=[id]): removes every entry with that id; no error
\* when there is none
EngineDelete(docs, id) == [k \in Keys |-> IF k[1] = id THEN 0 ELSE docs[k]]

\* collection.update(ids=[id], documents=[text]): the entry keeps its id and
\* takes the new text
EngineUpdate(docs, id, text) ==
    [k \in Keys |->
        IF k[1] # id THEN docs[k]
        ELSE IF k[2] = text THEN Copies(docs, id) ELSE 0]

\* collection.query(..., n_results=n): the result envelopes the engine may
\* return, parallel arrays over the min(n, count) nearest entries, nearest
\* first, ties in any order.
EngineQuery(docs, query, n) ==
    LET E == Entries(docs)
        k == Min(n, Cardinality(E))
        D(e) == Distance(query, e[2])
        Picks == {s \in [1..k -> E] :
                    /\ \A i, j \in 1..k : i # j => s[i] # s[j]
                    /\ \A i, j \in 1..k : i < j => D(s[i]) <= D(s[j])
                    /\ \A e \in E \ Range(s) : \A i \in 1..k : D(s[i]) <= D(e)}
    IN {[ids       |-> [i \in 1..k |-> s[i][1]],
         metadatas |-> [i \in 1..k |-> s[i][2]],
         documents |-> [i \in 1..k |-> s[i][2]],
         distances |-> [i \in 1..k |-> D(s[i])]] : s \in Picks}

NoEnv == [ids |-> <<>>, metadatas |-> <<>>, documents |-> <<>>, distances |-> <<>>]

\* ---------------------------------------------------------------- variant A
\* A mutation of A_create_collection: an existing collection is replaced by an
\* empty one.
A_create_collectionFresh(ns, st, name) ==
    [res |-> "ok", ret |-> name, names |-> ns \cup {name},
     store |-> [st EXCEPT ![name] = EmptyDocs]]

\* VectorDB.create_collection(name): create_collection(name, get_or_create=True)
A_create_collection(ns, st, name) ==
    [res |-> "ok", ret |-> name, names |-> ns \cup {name}, store |-> st]

\* VectorDB.insert_document(collection_name, doc_id, text)
A_insert_document(ns, st, c, id, text, dup) ==
    LET r == EngineAdd(st[c], id, text, dup)
    IN [res |-> r.res, names |-> ns \cup {c}, store |-> [st EXCEPT ![c] = r.docs]]

\* A mutation of A_update_document: the old entry is not deleted first.
A_update_documentNoDelete(ns, st, c, id, text, dup) ==
    IF c \notin ns
    THEN [res |-> "ValueError", names |-> ns, store |-> st]
    ELSE A_insert_document(ns, st, c, id, text, dup)

\* A mutation of A_update_document: the collection is not looked up first.
A_update_documentAutoCreate(ns, st, c, id, text, dup) ==
    A_insert_document(ns, [st EXCEPT ![c] = EngineDelete(st[c], id)],
                      c, id, text, dup)

\* VectorDB.update_document(collection_name, doc_id, new_text)
A_update_document(ns, st, c, id, text, dup) ==
    IF c \notin ns
    THEN [res |-> "ValueError", names |-> ns, store |-> st]
    ELSE A_insert_document(ns, [st EXCEPT ![c] = EngineDelete(st[c], id)],
                           c, id, text, dup)

\* VectorDB.delete_document(collection_name, doc_id)
A_delete_document(ns, st, c, id) ==
    IF c \notin ns
    THEN [res |-> "ValueError", names |-> ns, store |-> st]
    ELSE [res |-> "ok", names |-> ns,
          store |-> [st EXCEPT ![c] = EngineDelete(st[c], id)]]

\* A mutation of Reshape: the distance is passed on as the score.
ReshapeDistance(env) ==
    [i \in 1..Len(env.ids) |->
        <<env.ids[i], env.metadatas[i], env.distances[i]>>]

\* the loop of retrieve_similar_documents over the result envelope
Reshape(env) ==
    [i \in 1..Len(env.ids) |->
        <<env.ids[i], env.metadatas[i], 1 - env.distances[i]>>]

\* A mutation of A_retrieve_similar_documents: one result too few is requested.
A_retrieve_similar_documentsOffByOne(ns, st, c, query, n) ==
    IF c \notin ns
    THEN {[res |-> "ValueError", env |-> NoEnv, out |-> <<>>]}
    ELSE {[res |-> "ok", env |-> e, out |-> Reshape(e)] :
            e \in EngineQuery(st[c], query, n - 1)}

\* VectorDB.retrieve_similar_documents(collection_name, query_text, top_n):
\* the set of outcomes
A_retrieve_similar_documents(ns, st, c, query, n) ==
    IF c \notin ns
    THEN {[res |-> "ValueError", env |-> NoEnv, out |-> <<>>]}
    ELSE {[res |-> "ok", env |-> e, out |-> Reshape(e)] :
            e \in EngineQuery(st[c], query, n)}

\* VectorDB.delete_collection(name)
A_delete_collection(ns, st, name) ==
    IF name \in ns
    THEN [names |-> ns \ {name}, store |-> [st EXCEPT ![name] = EmptyDocs]]
    ELSE [names |-> ns, store |-> st]

\* src/api.py: a handler returns its message or result when the storage call
\* returns; an exception propagates to a server error.
RespA(res) == IF res = "ok" THEN "200" ELSE "500"

\* ---------------------------------------------------------------- variant B
\* What an engine call of variant B may raise besides the wrapper's own
\* not-found error: nothing, a ValueError of the engine's own, or an exception
\* of another class.
Faults == {"none", "ValueError", "Error"}

\* A mutation of Uuid4: a token that may have been issued before.
Uuid4Any(used) == Ids

\* uuid.uuid4(): a token never issued before
Uuid4(used) == Ids \ used

\* VectorDB.create_collection(): create, or on UniqueConstraintError get the
\* existing collection; either way self.collection is bound
B_create_collection(ns, st) ==
    IF DefaultColl \in ns
    THEN [res |-> "ok", ret |-> DefaultColl, names |-> ns, store |-> st,
          branch |-> "exists"]
    ELSE [res |-> "ok", ret |-> DefaultColl, names |-> ns \cup {DefaultColl},
          store |-> st, branch |-> "created"]

\* VectorDB.insert_document(text) with the token uuid4() returned
B_insert_document(h, docs, id, text, dup, fault) ==
    IF ~h THEN [res |-> "AttributeError", docs |-> docs]
    ELSE IF fault # "none" THEN [res |-> fault, docs |-> docs]
    ELSE EngineAdd(docs, id, text, dup)

\* A mutation of B_update_document: no existence check, an absent id is added.
B_update_documentUpsert(h, docs, id, text, fault) ==
    IF ~h THEN [res |-> "AttributeError", docs |-> docs]
    ELSE IF fault # "none" THEN [res |-> fault, docs |-> docs]
    ELSE IF EngineGet(docs, id) = {}
    THEN [res |-> "ok", docs |-> [docs EXCEPT ![<<id, text>>] = 1]]
    ELSE [res |-> "ok", docs |-> EngineUpdate(docs, id, text)]

\* VectorDB.update_document(document_id, new_text)
B_update_document(h, docs, id, text, fault) ==
    IF ~h THEN [res |-> "AttributeError", docs |-> docs]
    ELSE IF fault # "none" THEN [res |-> fault, docs |-> docs]
    ELSE IF EngineGet(docs, id) = {} THEN [res |-> "NotFound", docs |-> docs]
    ELSE [res |-> "ok", docs |-> EngineUpdate(docs, id, text)]

\* VectorDB.delete_document(document_id)
B_delete_document(h, docs, id, fault) ==
    IF ~h THEN [res |-> "AttributeError", docs |-> docs]
    ELSE IF fault # "none" THEN [res |-> fault, docs |-> docs]
    ELSE IF EngineGet(docs, id) = {} THEN [res |-> "NotFound", docs |-> docs]
    ELSE [res |-> "ok", docs |-> EngineDelete(docs, id)]

\* VectorDB.retrieve_documents(query_text, n): the set of outcomes
B_retrieve_documents(h, docs, query, n, fault) ==
    IF ~h THEN {[res |-> "AttributeError", env |-> NoEnv, docs |-> <<>>]}
    ELSE IF fault # "none" THEN {[res |-> fault, env |-> NoEnv, docs |-> <<>>]}
    ELSE {[res |-> "ok", env |-> e, docs |-> e.documents] :
            e \in EngineQuery(docs, query, n)}

\* the exceptions `except ValueError` catches
IsValueError(res) == res \in {"NotFound", "ValueError"}

\* src/src/api.py, PUT and DELETE /documents/{document_id}: the message on
\* return, HTTPException(404) on ValueError, anything else propagates
RespB_mutation(res) ==
    IF res = "ok" THEN "200"
    ELSE IF IsValueError(res) THEN "404"
    ELSE "500"

\* src/src/api.py, POST and GET /documents/: no except clause
RespB_plain(res) == IF res = "ok" THEN "200" ELSE "500"

\* ---------------------------------------------------------------- state
Call(op, c, id, text, n, dup, fault, res, resp, ret, env, out, docs) ==
    [op |-> op, coll |-> c, id |-> id, text |-> text, n |-> n, dup |-> dup,
     fault |-> fault, res |-> res, resp |-> resp, ret |-> ret, env |-> env,
     out |-> out, docs |-> docs,
     pre |-> [names |-> names, store |-> store, handle |-> handle,
              issued |-> issued]]

\* No call is being answered.
Idle ==
    [op |-> "idle", coll |-> 0, id |-> 0, text |-> 0, n |-> 0, dup |-> "none",
     fault |-> "none", res |-> "ok", resp |-> "200", ret |-> 0, env |-> NoEnv,
     out |-> <<>>, docs |-> <<>>,
     pre |-> [names |-> {}, store |-> [c \in CollNames |-> EmptyDocs],
              handle |-> FALSE, issued |-> {}]]

\* No update_document call is between its two engine calls.
NotUpdating ==
    [pc |-> "idle", coll |-> 0, id |-> 0, text |-> 0, old |-> 0, res |-> "ok"]

\* VectorDB.__init__ on a fresh persist directory: no collection, no document
Init ==
    /\ updating = NotUpdating
    /\ variant \in {"A", "B"}
    /\ names = {}
    /\ store = [c \in CollNames |-> EmptyDocs]
    /\ handle = FALSE
    /\ issued = {}
    /\ last = Idle

\* POST /create_collection
CreateCollectionA ==
    /\ variant = "A"
    /\ last = Idle
    /\ \E c \in CollNames :
        LET r == A_create_collection(names, store, c) IN
        /\ names' = r.names
        /\ store' = r.store
        /\ last' = Call("create", c, 0, 0, 0, "none", "none", r.res,
                        RespA(r.res), r.ret, NoEnv, <<>>, <<>>)
    /\ UNCHANGED <<updating, variant, handle, issued>>

\* POST /insert_document
InsertDocumentA ==
    /\ variant = "A"
    /\ last = Idle
    /\ \E c \in CollNames, id \in Ids, t \in Texts, dup \in DupModes :
        LET r == A_insert_document(names, store, c, id, t, dup) IN
        /\ names' = r.names
        /\ store' = r.store
        /\ last' = Call("insert", c, id, t, 0, dup, "none", r.res,
                        RespA(r.res), 0, NoEnv, <<>>, <<>>)
    /\ UNCHANGED <<updating, variant, handle, issued>>

\* POST /update_document
UpdateDocumentA ==
    /\ variant = "A"
    /\ last = Idle
    /\ \E c \in CollNames, id \in Ids, t \in Texts, dup \in DupModes :
        LET r == A_update_document(names, store, c, id, t, dup) IN
        /\ names' = r.names
        /\ store' = r.store
        /\ last' = Call("update", c, id, t, 0, dup, "none", r.res,
                        RespA(r.res), 0, NoEnv, <<>>, <<>>)
    /\ UNCHANGED <<updating, variant, handle, issued>>

\* DELETE /delete_document
DeleteDocumentA ==
    /\ variant = "A"
    /\ last = Idle
    /\ \E c \in CollNames, id \in Ids :
        LET r == A_delete_document(names, store, c, id) IN
        /\ names' = r.names
        /\ store' = r.store
        /\ last' = Call("delete", c, id, 0, 0, "none", "none", r.res,
                        RespA(r.res), 0, NoEnv, <<>>, <<>>)
    /\ UNCHANGED <<updating, variant, handle, issued>>

\* POST /retrieve
RetrieveA ==
    /\ variant = "A"
    /\ last = Idle
    /\ \E c \in CollNames, q \in Texts, n \in TopNs :
        \E r \in A_retrieve_similar_documents(names, store, c, q, n) :
            last' = Call("retrieve", c, 0, q, n, "none", "none", r.res,
                         RespA(r.res), 0, r.env, r.out, <<>>)
    /\ UNCHANGED <<updating, variant, names, store, handle, issued>>

\* db.delete_collection(name), as the sample script calls it
DeleteCollectionA ==
    /\ variant = "A"
    /\ last = Idle
    /\ \E c \in CollNames :
        LET r == A_delete_collection(names, store, c) IN
        /\ names' = r.names
        /\ store' = r.store
        /\ last' = Call("delete_collection", c, 0, 0, 0, "none", "none", "ok",
                        "200", 0, NoEnv, <<>>, <<>>)
    /\ UNCHANGED <<updating, variant, handle, issued>>

NextA ==
    \/ CreateCollectionA
    \/ InsertDocumentA
    \/ UpdateDocumentA
    \/ DeleteDocumentA
    \/ RetrieveA
    \/ DeleteCollectionA

\* db.create_collection(): at start-up of src/src/api.py and in the tests
CreateCollectionB ==
    /\ variant = "B"
    /\ last = Idle
    /\ LET r == B_create_collection(names, store) IN
        /\ names' = r.names
        /\ store' = r.store
        /\ handle' = TRUE
        /\ last' = Call("create", DefaultColl, 0, 0, 0, "none", "none", r.res,
                        "200", r.ret, NoEnv, <<>>, <<>>)
    /\ UNCHANGED <<updating, variant, issued>>

\* POST /documents/
InsertDocumentB ==
    /\ variant = "B"
    /\ last = Idle
    /\ \E t \in Texts, dup \in DupModes, f \in Faults :
        \E id \in Uuid4(issued) :
            LET r == B_insert_document(handle, store[DefaultColl], id, t, dup, f) IN
            /\ issued' = issued \cup {id}
            /\ store' = [store EXCEPT ![DefaultColl] = r.docs]
            /\ last' = Call("insert", DefaultColl, id, t, 0, dup, f, r.res,
                            RespB_plain(r.res), id, NoEnv, <<>>, <<>>)
    /\ UNCHANGED <<updating, variant, names, handle>>

\* PUT /documents/{document_id}
UpdateDocumentB ==
    /\ variant = "B"
    /\ last = Idle
    /\ \E id \in Ids, t \in Texts, f \in Faults :
        LET r == B_update_document(handle, store[DefaultColl], id, t, f) IN
        /\ store' = [store EXCEPT ![DefaultColl] = r.docs]
        /\ last' = Call("update", DefaultColl, id, t, 0, "none", f, r.res,
                        RespB_mutation(r.res), 0, NoEnv, <<>>, <<>>)
    /\ UNCHANGED <<updating, variant, names, handle, issued>>

\* DELETE /documents/{document_id}
DeleteDocumentB ==
    /\ variant = "B"
    /\ last = Idle
    /\ \E id \in Ids, f \in Faults :
        LET r == B_delete_document(handle, store[DefaultColl], id, f) IN
        /\ store' = [store EXCEPT ![DefaultColl] = r.docs]
        /\ last' = Call("delete", DefaultColl, id, 0, 0, "none", f, r.res,
                        RespB_mutation(r.res), 0, NoEnv, <<>>, <<>>)
    /\ UNCHANGED <<updating, variant, names, handle, issued>>

\* GET /documents/
RetrieveB ==
    /\ variant = "B"
    /\ last = Idle
    /\ \E q \in Texts, n \in TopNs, f \in Faults :
        \E r \in B_retrieve_documents(handle, store[DefaultColl], q, n, f) :
            last' = Call("retrieve", DefaultColl, 0, q, n, "none", f, r.res,
                         RespB_plain(r.res), 0, r.env, <<>>, r.docs)
    /\ UNCHANGED <<updating, variant, names, store, handle, issued>>

NextB ==
    \/ CreateCollectionB
    \/ InsertDocumentB
    \/ UpdateDocumentB
    \/ DeleteDocumentB
    \/ RetrieveB

\* Each request is handled synchronously end to end: the answer is handed to
\* the caller and the process waits for the next call.
Return ==
    /\ last # Idle
    /\ last' = Idle
    /\ UNCHANGED <<updating, variant, names, store, handle, issued>>

Next == NextA \/ NextB \/ Return

Spec == Init /\ [][Next]_vars

\* ------------------------------------------------ update_document, unlocked
\* src/api.py declares its endpoints with `def`, so requests run on worker
\* threads against the one module-level VectorDB, and update_document takes no
\* lock: its two engine calls are separate steps, and the calls of the other
\* requests (NextA, each one engine call at a time) run between them.

\* the text stored under an id, 0 when there is none
TextOf(docs, id) ==
    IF \E t \in Texts : docs[<<id, t>>] > 0
    THEN CHOOSE t \in Texts : docs[<<id, t>>] > 0
    ELSE 0

\* What the re-insert step may raise besides the engine's duplicate-id error:
\* nothing, or an exception of the embedding model or of the engine.
StepFaults == {"none", "Error"}

\* update_document up to and including collection.delete(ids=[doc_id])
UpdateDeleteStep ==
    /\ variant = "A"
    /\ updating.pc = "idle"
    /\ \E c \in CollNames, id \in Ids, t \in Texts :
        IF c \notin names
        THEN /\ updating' = [pc |-> "raised", coll |-> c, id |-> id,
                             text |-> t, old |-> 0, res |-> "ValueError"]
             /\ UNCHANGED store
        ELSE /\ updating' = [pc |-> "deleted", coll |-> c, id |-> id,
                             text |-> t, old |-> TextOf(store[c], id),
                             res |-> "ok"]
             /\ store' = [store EXCEPT ![c] = EngineDelete(store[c], id)]
    /\ UNCHANGED <<variant, names, handle, issued, last>>

\* update_document's self.insert_document(collection_name, doc_id, new_text)
UpdateInsertStep ==
    /\ variant = "A"
    /\ updating.pc = "deleted"
    /\ \E dup \in DupModes, f \in StepFaults :
        IF f # "none"
        THEN /\ updating' = [updating EXCEPT !.pc = "raised", !.res = f]
             /\ UNCHANGED <<names, store>>
        ELSE LET r == A_insert_document(names, store, updating.coll,
                                        updating.id, updating.text, dup) IN
             /\ names' = r.names
             /\ store' = r.store
             /\ updating' = [updating EXCEPT
                               !.pc = IF r.res = "ok" THEN "returned"
                                      ELSE "raised",
                               !.res = r.res]
    /\ UNCHANGED <<variant, handle, issued, last>>

\* the update_document call is over: its handler answers
UpdateReturn ==
    /\ variant = "A"
    /\ updating.pc \in {"returned", "raised"}
    /\ updating' = NotUpdating
    /\ UNCHANGED <<variant, names, store, handle, issued, last>>

NextUnlocked ==
    \/ UpdateDeleteStep
    \/ UpdateInsertStep
    \/ UpdateReturn
    \/ NextA
    \/ Return

InitUnlocked == Init /\ variant = "A"

SpecUnlocked == InitUnlocked /\ [][NextUnlocked]_vars

\* ---------------------------------------------------------------- claims
\* The collection a call was made on, before and after it.
Before == last.pre.store[last.coll]
After == store[last.coll]
Untouched == names = last.pre.names /\ store = last.pre.store
WasStored == EngineGet(Before, last.id) # {}
Called(v, ops) == variant = v /\ last.op \in ops

\* What a retrieval made in the current state may return, over every query
\* text and every top_n.
RetrievalsA(c) ==
    UNION {A_retrieve_similar_documents(names, store, c, q, n) :
             q \in Texts, n \in TopNs}
RetrievalsB ==
    UNION {B_retrieve_documents(handle, store[DefaultColl], q, n, "none") :
             q \in Texts, n \in TopNs}

\* C1: in variant B, update_document and delete_document on an id that is not
\* in the collection raise the not-found ValueError (whenever the engine
\* itself answers the existence check) and leave collections and documents
\* exactly as they were.
C1_NotFoundLeavesCollection ==
    (Called("B", {"update", "delete"}) /\ last.pre.handle /\ ~WasStored)
        => /\ last.res # "ok"
           /\ last.fault = "none" => last.res = "NotFound"
           /\ Untouched

C1_Witness ==
    /\ Called("B", {"update", "delete"})
    /\ last.res = "NotFound"
    /\ Count(Before) > 0

\* C2: in variant A, update_document and delete_document on an existing
\* collection that does not hold doc_id fail: no confirmation message, and the
\* collection holds the same documents afterwards.
C2_AbsentIdFails ==
    (Called("A", {"update", "delete"}) /\ last.coll \in last.pre.names
        /\ ~WasStored)
        => /\ last.res # "ok"
           /\ last.resp # "200"
           /\ Untouched

\* The mutation the call asked for is in the collection.
Applied ==
    IF last.op = "update"
    THEN After[<<last.id, last.text>>] = 1 /\ Copies(After, last.id) = 1
    ELSE Copies(After, last.id) = 0

\* C3: in variant B's REST layer, PUT and DELETE /documents/{id} answer 404
\* exactly when the id is absent, the success message exactly when it was
\* present and the mutation applied, and a storage failure other than
\* not-found becomes neither a 404 nor a success message.
C3_Only404OnNotFound ==
    (Called("B", {"update", "delete"}) /\ last.pre.handle)
        => /\ last.fault = "none" =>
                /\ last.resp = "404" <=> ~WasStored
                /\ last.resp = "200" <=> (WasStored /\ Applied)
           /\ last.fault # "none" => last.resp \notin {"404", "200"}

\* C4: create_collection on a name that already exists does not raise, yields
\* the collection of that name, and leaves the set of collections and every
\* stored document as they were (so repeating it changes nothing further).
C4_CreateIdempotent ==
    (last.op = "create" /\ last.coll \in last.pre.names)
        => /\ last.res = "ok"
           /\ last.ret = last.coll
           /\ Untouched
           /\ variant = "B" => handle

C4_Witness ==
    /\ last.op = "create"
    /\ last.coll \in last.pre.names
    /\ Count(After) > 0

\* C5: after a successful delete_document of id d the collection holds exactly
\* one document less, no retrieval returns d, and if d was the only document
\* every retrieval is empty.
C5_DeleteRemovesOne ==
    (last.op = "delete" /\ last.res = "ok")
        => /\ Count(After) = Count(Before) - 1
           /\ variant = "A" =>
                \A r \in RetrievalsA(last.coll) :
                    /\ \A i \in 1..Len(r.out) : r.out[i][1] # last.id
                    /\ Count(Before) = 1 => r.out = <<>>
           /\ variant = "B" =>
                \A r \in RetrievalsB : Count(Before) = 1 => r.docs = <<>>

\* C6: after a successful update_document of a stored id d with text t the
\* collection holds the same ids and as many documents as before, d is stored
\* once and with t, no other document and no other collection changed, and a
\* retrieval returns d only with t (variant B, which returns texts alone: only
\* texts of stored documents).
C6_UpdateReplacesText ==
    (last.op = "update" /\ last.res = "ok" /\ WasStored)
        => /\ IdsOf(After) = IdsOf(Before)
           /\ Count(After) = Count(Before)
           /\ After[<<last.id, last.text>>] = 1
           /\ Copies(After, last.id) = 1
           /\ \A k \in Keys : k[1] # last.id => After[k] = Before[k]
           /\ names = last.pre.names
           /\ \A c \in CollNames \ {last.coll} : store[c] = last.pre.store[c]
           /\ variant = "A" =>
                \A r \in RetrievalsA(last.coll) : \A i \in 1..Len(r.out) :
                    r.out[i][1] = last.id => r.out[i][2] = last.text
           /\ variant = "B" =>
                \A r \in RetrievalsB : \A i \in 1..Len(r.docs) :
                    \E k \in Keys : After[k] > 0 /\ k[2] = r.docs[i]

C6_Witness ==
    /\ last.op = "update"
    /\ last.res = "ok"
    /\ WasStored
    /\ Before[<<last.id, last.text>>] = 0
    /\ Count(After) = 2

\* The insert stored text t under an id d that was new to the collection.
InsertedNew == last.op = "insert" /\ last.res = "ok" /\ ~WasStored
Others == {e \in Entries(After) : e[1] # last.id}

\* The retrieval of the inserted text is headed by the inserted document.
HeadedByInserted ==
    /\ variant = "A" =>
        \A n \in TopNs :
            \A r \in A_retrieve_similar_documents(names, store, last.coll,
                                                  last.text, n) :
                /\ r.res = "ok"
                /\ Len(r.out) >= 1
                /\ r.out[1][1] = last.id
                /\ r.out[1][2] = last.text
                /\ Others = {} => Len(r.out) = 1
    /\ variant = "B" =>
        \A n \in TopNs :
            \A r \in B_retrieve_documents(handle, store[DefaultColl],
                                          last.text, n, "none") :
                /\ r.res = "ok"
                /\ Len(r.docs) >= 1
                /\ r.docs[1] = last.text
                /\ Others = {} => Len(r.docs) = 1

\* C7 as stated: after insert_document stores t under a new id d, retrieving t
\* with top_n >= 1 returns a non-empty list headed by (d, t), provided no other
\* stored document is strictly closer to t than t itself.
C7_ExactTextIsTop ==
    (InsertedNew
        /\ \A e \in Others : ~(Distance(last.text, e[2])
                                 < Distance(last.text, last.text)))
        => HeadedByInserted

\* C7 as amended: the same, provided no other stored document is as close to t
\* as t itself; and in every case the retrieval is non-empty and headed by a
\* document at distance 0 from t.
C7_ExactTextIsTopUnlessTied ==
    InsertedNew
        => /\ (\A e \in Others : Distance(last.text, e[2])
                                   > Distance(last.text, last.text))
                => HeadedByInserted
           /\ variant = "A" =>
                \A n \in TopNs :
                    \A r \in A_retrieve_similar_documents(names, store,
                                                last.coll, last.text, n) :
                        /\ Len(r.out) >= 1
                        /\ r.out[1][3] = 1
                        /\ Distance(last.text, r.out[1][2]) = 0
           /\ variant = "B" =>
                \A n \in TopNs :
                    \A r \in B_retrieve_documents(handle, store[DefaultColl],
                                                  last.text, n, "none") :
                        /\ Len(r.docs) >= 1
                        /\ Distance(last.text, r.docs[1]) = 0

C7_Witness ==
    /\ InsertedNew
    /\ Others # {}
    /\ \A e \in Others : Distance(last.text, e[2]) > 0

C9_RetrieveShape ==
    (Called("A", {"retrieve"}) /\ last.res = "ok")
        => /\ Len(last.out) = Min(last.n, Count(After))
           /\ Len(last.env.ids) = Len(last.out)
           /\ \A i \in 1..Len(last.out) :
                /\ last.out[i][1] = last.env.ids[i]
                /\ After[<<last.env.ids[i], last.out[i][2]>>] = 1
                /\ last.out[i][3] = 1 - last.env.distances[i]
                /\ last.env.distances[i] = Distance(last.text, last.out[i][2])
           /\ \A i, j \in 1..Len(last.out) :
                /\ i < j => last.out[i][3] >= last.out[j][3]
                /\ i # j => last.out[i][1] # last.out[j][1]
           /\ Untouched

C9_Witness ==
    /\ Called("A", {"retrieve"})
    /\ last.res = "ok"
    /\ last.n > Count(After)
    /\ Len(last.out) = 2
    /\ last.out[1][3] > last.out[2][3]

\* C10 as stated: in variant A insert, update, delete and retrieve on a
\* collection name that does not exist all fail and change nothing.
C10_MissingCollectionFails ==
    (Called("A", {"insert", "update", "delete", "retrieve"})
        /\ last.coll \notin last.pre.names)
        => /\ last.res # "ok"
           /\ last.resp # "200"
           /\ Untouched

\* C10 as amended: update, delete and retrieve on a collection name that does
\* not exist fail and change nothing; insert_document creates the collection
\* and stores the document in it, leaving the other collections alone.
C10_MissingCollectionFailsButInsertCreates ==
    /\ (Called("A", {"update", "delete", "retrieve"})
            /\ last.coll \notin last.pre.names)
        => /\ last.res # "ok"
           /\ last.resp # "200"
           /\ Untouched
    /\ (Called("A", {"insert"}) /\ last.coll \notin last.pre.names)
        => /\ last.res = "ok"
           /\ names = last.pre.names \cup {last.coll}
           /\ After = [EmptyDocs EXCEPT ![<<last.id, last.text>>] = 1]
           /\ \A c \in CollNames \ {last.coll} : store[c] = last.pre.store[c]

C10_Witness ==
    /\ Called("A", {"update", "delete", "retrieve"})
    /\ last.coll \notin last.pre.names
    /\ last.res = "ValueError"

\* C11: update_document of a stored id d is atomic: from its first engine call
\* until its handler has answered, d is stored in the collection with its old
\* or its new text, never absent, whatever the other requests do in between;
\* and when the call raises, d is still stored with its old text.
C11_UpdateAtomic ==
    (updating.pc # "idle" /\ updating.old # 0)
        => LET now == TextOf(store[updating.coll], updating.id) IN
           /\ updating.coll \in names
           /\ now \in {updating.old, updating.text}
           /\ updating.pc = "raised" => now = updating.old
====
